---------------------------- MODULE Spec2Model ----------------------------
(***************************************************************************)
(* Model of src/main.rs of glium-101: one closure handed to                *)
(* event_loop.run, invoked once per event, which compiles the shader       *)
(* program, draws the fill and the stroke of one triangle, presents the    *)
(* frame, sets the control flow and finally matches on the event.          *)
(*                                                                         *)
(* Floating point values are kept exact: vertex coordinates are written    *)
(* in hundredths (-0.5 is -50, 0.25 is 25), colour channels 0.0 and 1.0    *)
(* are 0 and 1, the line width 4.0 is 4.  Option<T> is a sequence of       *)
(* length 0 (None) or 1 (Some).                                            *)
(***************************************************************************)
EXTENDS Integers, Sequences, FiniteSets

VARIABLES
    pc,            \* position: in the event loop, at a statement of the closure, or terminated
    event,         \* the event handed to the running invocation
    control_flow,  \* *control_flow as the closure sees and writes it
    loop_flow,     \* the control flow the event loop acts on
    phase,         \* where the event loop is in its iteration
    ticks,         \* number of invocations of the closure so far
    program,       \* handle of the shader program of this invocation
    openFrames,    \* Frame objects created by display.draw() and not yet finished
    frames,        \* frames presented so far
    args,          \* arguments of the latest generate_draw_command call
    cmd,           \* triangle_draw_command
    trace,         \* what this invocation has done so far, in order
    lastTrace,     \* what the previous completed invocation did
    err,           \* the fallible operation that failed, "none" if none did
    wake           \* a timer expiry, the start or a close request was delivered since the last presentation

vars == <<pc, event, control_flow, loop_flow, phase, ticks, program, openFrames,
          frames, args, cmd, trace, lastTrace, err, wake>>

----------------------------------------------------------------------------
(* Bounds *)

MaxTicks == 6      \* invocations of the closure before the loop delivers nothing but LoopDestroyed
MaxLen == 3        \* longest vertex list handed to generate_draw_command on its own

----------------------------------------------------------------------------
(* Data *)

Vertex(x, y) == [position |-> <<x, y>>]

\* vec![...] of the closure
vertices == << Vertex(-50, -50), Vertex(0, 50), Vertex(50, -25) >>

Color_new(r, g, b, a) == [r |-> r, g |-> g, b |-> b, a |-> a]

as_tuple_bgra(self) == <<self.b, self.g, self.r, self.a>>

as_tuple(self) == <<self.r, self.g, self.b, self.a>>

None == <<>>
Some(x) == <<x>>

ShapePrimitive == {"Circle", "Triangle"}

VERTEX_SHADER_SRC == "vertex: gl_Position = vec4(position, 0.0, 1.0)"
FRAGMENT_SHADER_SRC == "fragment: color = requested_rgba_color"

clear_rgba_by_frame == <<1, 1, 1, frames % 2>>

\* the arguments of frame.clear_color
clear_rgba == <<1, 1, 1, 1>>

NoProgram == 0
NoCmd == [vertex_buffer |-> <<>>, indices |-> "none", uniforms |-> <<>>,
          draw_parameters |-> [multisampling |-> FALSE, polygon_mode |-> "none", line_width |-> None]]
NoArgs == [vertices |-> <<>>, primitive |-> "Triangle", color |-> Color_new(0, 0, 0, 0),
           add_fill |-> FALSE, stroke_width |-> None]

----------------------------------------------------------------------------
(* generate_draw_command, on the path where VertexBuffer::new succeeds *)

generate_draw_command_drop_last(vs, primitive, color, add_fill, stroke_width) ==
    [vertex_buffer |-> IF Len(vs) = 0 THEN vs ELSE SubSeq(vs, 1, Len(vs) - 1),
     indices |-> IF primitive = "Circle" THEN "LineLoop" ELSE "TrianglesList",
     uniforms |-> [requested_rgba_color |-> as_tuple(color)],
     draw_parameters |-> [multisampling |-> TRUE,
                          polygon_mode |-> IF add_fill THEN "Fill" ELSE "Line",
                          line_width |-> stroke_width]]

generate_draw_command(vs, primitive, color, add_fill, stroke_width) ==
    [vertex_buffer |-> vs,
     indices |-> IF primitive = "Circle" THEN "LineLoop" ELSE "TrianglesList",
     uniforms |-> [requested_rgba_color |-> as_tuple(color)],
     draw_parameters |-> [multisampling |-> TRUE,
                          polygon_mode |-> IF add_fill THEN "Fill" ELSE "Line",
                          line_width |-> stroke_width]]

Call(a) == generate_draw_command(a.vertices, a.primitive, a.color, a.add_fill, a.stroke_width)

\* the locals of the closure before its first call
FillArgs == [vertices |-> vertices, primitive |-> "Triangle",
             color |-> Color_new(1, 0, 0, 0), add_fill |-> TRUE, stroke_width |-> None]

StrokeArgs_filled == [vertices |-> vertices, primitive |-> "Triangle",
                      color |-> Color_new(1, 1, 0, 0), add_fill |-> TRUE, stroke_width |-> Some(4)]

\* the locals of the closure before its second call
StrokeArgs == [vertices |-> vertices, primitive |-> "Triangle",
               color |-> Color_new(1, 1, 0, 0), add_fill |-> FALSE, stroke_width |-> Some(4)]

----------------------------------------------------------------------------
(* Results and unwrap *)

Results == {"Ok", "Err"}

unwrap_ignoring(r, next) == next

\* Result::unwrap: a panic on Err, the next statement on Ok
unwrap(r, next) == IF r = "Err" THEN "panicked" ELSE next

Failed(r, what) == IF r = "Err" THEN what ELSE err

----------------------------------------------------------------------------
(* The statements of the closure, in source order *)

StepAfter_finish_early(s) ==
    CASE s = "from_source"      -> "display_draw"
      [] s = "display_draw"     -> "clear_color"
      [] s = "clear_color"      -> "gen_fill"
      [] s = "gen_fill"         -> "draw_fill"
      [] s = "draw_fill"        -> "finish"
      [] s = "finish"           -> "gen_stroke"
      [] s = "gen_stroke"       -> "draw_stroke"
      [] s = "draw_stroke"      -> "set_control_flow"
      [] s = "set_control_flow" -> "match_event"
      [] s = "match_event"      -> "returned"

StepAfter(s) ==
    CASE s = "from_source"      -> "display_draw"
      [] s = "display_draw"     -> "clear_color"
      [] s = "clear_color"      -> "gen_fill"
      [] s = "gen_fill"         -> "draw_fill"
      [] s = "draw_fill"        -> "gen_stroke"
      [] s = "gen_stroke"       -> "draw_stroke"
      [] s = "draw_stroke"      -> "finish"
      [] s = "finish"           -> "set_control_flow"
      [] s = "set_control_flow" -> "match_event"
      [] s = "match_event"      -> "returned"

----------------------------------------------------------------------------
(* Events and the event loop *)

Ev(kind, inner) == [kind |-> kind, inner |-> inner]

NoEvent == Ev("none", "")
CloseRequested == Ev("WindowEvent", "CloseRequested")
Resized == Ev("WindowEvent", "Resized")
DeviceEvent == Ev("DeviceEvent", "")
MainEventsCleared == Ev("MainEventsCleared", "")
RedrawRequested == Ev("RedrawRequested", "")
RedrawEventsCleared == Ev("RedrawEventsCleared", "")
LoopDestroyed == Ev("LoopDestroyed", "")
NewEvents(cause) == Ev("NewEvents", cause)

\* the cause of an iteration, from the control flow the previous one left
StartCauses ==
    IF ticks = 0 THEN {"Init"}
    ELSE CASE loop_flow = "WaitUntil" -> {"ResumeTimeReached", "WaitCancelled"}
           [] loop_flow = "Wait"      -> {"WaitCancelled"}
           [] loop_flow = "Poll"      -> {"Poll"}
           [] OTHER                   -> {}

\* the events the loop may hand to the closure next, each with the phase it leaves
Deliverable ==
    LET iteration ==
          CASE phase = "new_events" ->
                 {[event |-> NewEvents(c), phase |-> "window_events"] : c \in StartCauses}
            [] phase = "window_events" ->
                 {[event |-> e, phase |-> "window_events"] : e \in {CloseRequested, Resized, DeviceEvent}}
                 \cup {[event |-> MainEventsCleared, phase |-> "redraws"]}
            [] phase = "redraws" ->
                 {[event |-> RedrawRequested, phase |-> "redraws"],
                  [event |-> RedrawEventsCleared, phase |-> "new_events"]}
            [] OTHER -> {}
    IN  IF loop_flow = "Exit"
        THEN {[event |-> LoopDestroyed, phase |-> "destroyed"]}
             \cup (IF phase = "new_events" THEN {} ELSE iteration)
        ELSE iteration

\* ControlFlow::Exit is sticky: once set, what the closure writes is discarded
StickyExit(old, new) == IF old = "Exit" THEN "Exit" ELSE new

IsFrameCause(e) ==
    \/ e = NewEvents("Init")
    \/ e = NewEvents("ResumeTimeReached")
    \/ e = CloseRequested

match_event_never_exit(e, cf) == cf

match_event_any_window(e, cf) == IF e.kind = "WindowEvent" THEN "Exit" ELSE cf

\* the match at the end of the closure: the control flow it leaves
match_event(e, cf) ==
    IF e.kind = "WindowEvent"
    THEN IF e.inner = "CloseRequested" THEN "Exit" ELSE cf
    ELSE cf

finish_leaking(n) == n

\* Frame::finish consumes the frame
finish(n) == n - 1

----------------------------------------------------------------------------
(* Initial state: the display exists, event_loop.run has been entered *)

Init ==
    /\ pc = "idle"
    /\ event = NoEvent
    /\ control_flow = "Poll"
    /\ loop_flow = "Poll"
    /\ phase = "new_events"
    /\ ticks = 0
    /\ program = NoProgram
    /\ openFrames = 0
    /\ frames = 0
    /\ args = NoArgs
    /\ cmd = NoCmd
    /\ trace = <<>>
    /\ lastTrace = <<>>
    /\ err = "none"
    /\ wake = FALSE

\* event_loop.run calls the closure with the next event
Deliver ==
    /\ pc = "idle"
    /\ \E d \in Deliverable :
         /\ d.event = LoopDestroyed \/ ticks < MaxTicks
         /\ event' = d.event
         /\ phase' = d.phase
         /\ wake' = (wake \/ IsFrameCause(d.event))
    /\ pc' = "from_source"
    /\ control_flow' = loop_flow
    /\ ticks' = ticks + 1
    /\ trace' = <<>>
    /\ UNCHANGED <<loop_flow, program, openFrames, frames, args, cmd, lastTrace, err>>

\* glium::Program::from_source(...).unwrap()
ProgramFromSource ==
    /\ pc = "from_source"
    /\ \E r \in Results :
         /\ pc' = unwrap(r, StepAfter(pc))
         /\ err' = Failed(r, "from_source")
         /\ program' = IF r = "Ok" THEN ticks ELSE program
         /\ trace' = IF r = "Ok"
                     THEN Append(trace, [kind |-> "compile", program |-> ticks,
                                         vertex |-> VERTEX_SHADER_SRC,
                                         fragment |-> FRAGMENT_SHADER_SRC,
                                         geometry |-> None])
                     ELSE trace
    /\ UNCHANGED <<event, control_flow, loop_flow, phase, ticks, openFrames, frames,
                   args, cmd, lastTrace, wake>>

\* let mut frame = display.draw()
DisplayDraw ==
    /\ pc = "display_draw"
    /\ pc' = StepAfter(pc)
    /\ openFrames' = openFrames + 1
    /\ trace' = Append(trace, [kind |-> "open"])
    /\ UNCHANGED <<event, control_flow, loop_flow, phase, ticks, program, frames,
                   args, cmd, lastTrace, err, wake>>

\* frame.clear_color(1.0, 1.0, 1.0, 1.0)
ClearColor ==
    /\ pc = "clear_color"
    /\ pc' = StepAfter(pc)
    /\ trace' = Append(trace, [kind |-> "clear", color |-> clear_rgba])
    /\ UNCHANGED <<event, control_flow, loop_flow, phase, ticks, program, openFrames,
                   frames, args, cmd, lastTrace, err, wake>>

\* a call of generate_draw_command from the closure; VertexBuffer::new(...).unwrap() inside
Generate(at, a) ==
    /\ pc = at
    /\ args' = a
    /\ \E r \in Results :
         /\ pc' = unwrap(r, StepAfter(pc))
         /\ err' = Failed(r, at)
         /\ cmd' = IF r = "Ok" THEN Call(a) ELSE cmd
         /\ trace' = IF r = "Ok"
                     THEN Append(trace, [kind |-> "upload", vertices |-> Call(a).vertex_buffer])
                     ELSE trace
    /\ UNCHANGED <<event, control_flow, loop_flow, phase, ticks, program, openFrames,
                   frames, lastTrace, wake>>

\* frame.draw(...).unwrap() with the fields of triangle_draw_command
Draw(at) ==
    /\ pc = at
    /\ \E r \in Results :
         /\ pc' = unwrap(r, StepAfter(pc))
         /\ err' = Failed(r, at)
         /\ trace' = IF r = "Ok"
                     THEN Append(trace, [kind |-> "draw", program |-> program,
                                         vertex_buffer |-> cmd.vertex_buffer,
                                         indices |-> cmd.indices,
                                         uniforms |-> cmd.uniforms,
                                         draw_parameters |-> cmd.draw_parameters])
                     ELSE trace
    /\ UNCHANGED <<event, control_flow, loop_flow, phase, ticks, program, openFrames,
                   frames, args, cmd, lastTrace, wake>>

GenerateFill == Generate("gen_fill", FillArgs)

DrawFill == Draw("draw_fill")

GenerateStroke == Generate("gen_stroke", StrokeArgs)

DrawStroke == Draw("draw_stroke")

\* frame.finish().unwrap(): the frame is consumed whether or not the swap succeeds
Finish ==
    /\ pc = "finish"
    /\ openFrames' = finish(openFrames)
    /\ \E r \in Results :
         /\ pc' = unwrap(r, StepAfter(pc))
         /\ err' = Failed(r, "finish")
         /\ frames' = IF r = "Ok" THEN frames + 1 ELSE frames
         /\ wake' = IF r = "Ok" THEN FALSE ELSE wake
         /\ trace' = IF r = "Ok" THEN Append(trace, [kind |-> "finish"]) ELSE trace
    /\ UNCHANGED <<event, control_flow, loop_flow, phase, ticks, program, args, cmd, lastTrace>>

\* *control_flow = ControlFlow::WaitUntil(next_frame_time)
SetControlFlow ==
    /\ pc = "set_control_flow"
    /\ pc' = StepAfter(pc)
    /\ control_flow' = "WaitUntil"
    /\ trace' = Append(trace, [kind |-> "wait"])
    /\ UNCHANGED <<event, loop_flow, phase, ticks, program, openFrames, frames,
                   args, cmd, lastTrace, err, wake>>

\* match event { ... }
MatchEvent ==
    /\ pc = "match_event"
    /\ pc' = StepAfter(pc)
    /\ control_flow' = match_event(event, control_flow)
    /\ UNCHANGED <<event, loop_flow, phase, ticks, program, openFrames, frames,
                   args, cmd, trace, lastTrace, err, wake>>

\* the closure returns to event_loop.run, which takes over the control flow
Return ==
    /\ pc = "returned"
    /\ loop_flow' = StickyExit(loop_flow, control_flow)
    /\ lastTrace' = trace
    /\ pc' = IF event = LoopDestroyed THEN "exited" ELSE "idle"
    /\ UNCHANGED <<event, control_flow, phase, ticks, program, openFrames, frames,
                   args, cmd, trace, err, wake>>

Next ==
    \/ Deliver
    \/ ProgramFromSource
    \/ DisplayDraw
    \/ ClearColor
    \/ GenerateFill
    \/ DrawFill
    \/ GenerateStroke
    \/ DrawStroke
    \/ Finish
    \/ SetControlFlow
    \/ MatchEvent
    \/ Return

Spec == Init /\ [][Next]_vars

\* the event loop and the closure run on one thread that is never starved
FairSpec == Spec /\ WF_vars(Next)

----------------------------------------------------------------------------
(* generate_draw_command on its own, over every combination of arguments *)

Channels == {0, 1}
Widths == {None, Some(1), Some(4)}
VertexLists == UNION {[1..n -> {vertices[i] : i \in 1..3}] : n \in 0..MaxLen}

ArgSpace ==
    [vertices : VertexLists,
     primitive : ShapePrimitive,
     color : {Color_new(r, g, b, a) : r \in Channels, g \in Channels, b \in Channels, a \in Channels},
     add_fill : BOOLEAN,
     stroke_width : Widths]

InitGen ==
    /\ pc = "gen_call"
    /\ args \in ArgSpace
    /\ event = NoEvent
    /\ control_flow = "Poll"
    /\ loop_flow = "Poll"
    /\ phase = "new_events"
    /\ ticks = 0
    /\ program = NoProgram
    /\ openFrames = 0
    /\ frames = 0
    /\ cmd = NoCmd
    /\ trace = <<>>
    /\ lastTrace = <<>>
    /\ err = "none"
    /\ wake = FALSE

\* one call of generate_draw_command with the arguments chosen
GenCall ==
    /\ pc = "gen_call"
    /\ \E r \in Results :
         /\ pc' = unwrap(r, "gen_done")
         /\ err' = Failed(r, "gen_call")
         /\ cmd' = IF r = "Ok" THEN Call(args) ELSE cmd
         /\ trace' = IF r = "Ok"
                     THEN Append(trace, [kind |-> "upload", vertices |-> Call(args).vertex_buffer])
                     ELSE trace
    /\ UNCHANGED <<event, control_flow, loop_flow, phase, ticks, program, openFrames,
                   frames, args, lastTrace, wake>>

NextGen == GenCall

SpecGen == InitGen /\ [][NextGen]_vars

----------------------------------------------------------------------------
(* Helpers for the properties *)

Kinds(t) == [i \in DOMAIN t |-> t[i].kind]

IsPrefix(s, t) == Len(s) <= Len(t) /\ SubSeq(t, 1, Len(s)) = s

OfKind(t, k) == SelectSeq(t, LAMBDA o : o.kind = k)

\* an operation without the handle of the program it names
Strip(o) == [f \in DOMAIN o \ {"program"} |-> o[f]]

Stripped(t) == [i \in DOMAIN t |-> Strip(t[i])]

SourceOrder == <<"compile", "open", "clear", "upload", "draw", "upload", "draw", "finish", "wait">>

Letter(k) ==
    CASE k = "compile" -> 1
      [] k = "upload"  -> 2
      [] k = "draw"    -> 3
      [] k = "finish"  -> 4
      [] k = "wait"    -> 5
      [] OTHER         -> 0

ClearedBeforeDraw(t) ==
    \A j \in DOMAIN t : t[j].kind = "draw" => \E i \in 1..(j - 1) : t[i].kind = "clear"

Terminated == pc \in {"exited", "panicked"}

----------------------------------------------------------------------------
(* Properties *)

\* C1 as stated: in a completed invocation no step of a later letter, among
\* (a) compile, (b) upload, (c) draw, (d) finish, (e) wait, precedes a step of
\* an earlier letter, and the frame is cleared before the first draw call.
C1_LettersInOrder ==
    pc = "returned" =>
        /\ \A i, j \in DOMAIN trace :
              (i < j /\ Letter(trace[i].kind) > 0 /\ Letter(trace[j].kind) > 0)
                  => Letter(trace[i].kind) <= Letter(trace[j].kind)
        /\ ClearedBeforeDraw(trace)

\* C1 amended: every invocation runs compile, open, clear, upload (fill),
\* draw (fill), upload (stroke), draw (stroke), finish, wait in exactly this
\* order; the stroke's upload follows the fill's draw call.
C1_SourceOrder ==
    /\ IsPrefix(Kinds(trace), SourceOrder)
    /\ pc = "returned" => Kinds(trace) = SourceOrder
    /\ ClearedBeforeDraw(trace)

C1_Witness == pc = "returned" /\ Len(trace) = Len(SourceOrder) /\ err = "none"

\* C2 as stated: a frame is presented only if, since the previous
\* presentation, the timer expired, the loop started, or a close request
\* arrived.
C2_FrameOnlyOnTimerOrClose == [][frames' > frames => wake]_vars

\* C3: when the closure returns, the control flow it leaves is Exit exactly
\* when its event was the window's CloseRequested, and WaitUntil otherwise.
C3_ExitIffCloseRequested ==
    pc = "returned" =>
        /\ (control_flow = "Exit") <=> (event = CloseRequested)
        /\ event # CloseRequested => control_flow = "WaitUntil"

C3_Witness == pc = "returned" /\ event = CloseRequested /\ control_flow = "Exit"

\* C4: a failed operation ends the program in that step: the step that fails
\* leads to the panic without doing its work, and after a failure nothing
\* runs any more (no retry, no later step, no later frame).
C4_FailureIsFatal ==
    [][/\ err = "none"
       /\ err' # "none" => (pc' = "panicked" /\ frames' = frames /\ trace' = trace)]_vars

C4_Witness == pc = "panicked" /\ err = "draw_stroke" /\ frames >= 1

\* C5: a completed invocation issues the same operations, with the same
\* arguments, as the completed invocation before it, whatever the two events.
C5_SameOperationsEveryInvocation ==
    (pc = "returned" /\ lastTrace # <<>>) => Stripped(trace) = Stripped(lastTrace)

C5_Witness ==
    /\ pc = "returned"
    /\ lastTrace # <<>>
    /\ event = CloseRequested
    /\ frames >= 3

\* C6: every vertex buffer uploaded or drawn holds the three vertices of the
\* triangle, both calls are given that list, and generate_draw_command
\* uploads the list it is given unchanged.
C6_ThreeVertices ==
    /\ Len(vertices) = 3
    /\ \A i \in DOMAIN trace :
          /\ trace[i].kind = "upload" => trace[i].vertices = vertices
          /\ trace[i].kind = "draw" => trace[i].vertex_buffer = vertices
    /\ pc \in {"draw_fill", "draw_stroke"} => args.vertices = vertices
    /\ \A a \in ArgSpace : Call(a).vertex_buffer = a.vertices

C6_Witness == pc = "draw_stroke" /\ Len(OfKind(trace, "upload")) = 2

\* C7: at most one frame is open, none is open when the event loop hands over
\* an event or when the closure returns, and a completed invocation has
\* opened one frame and finished it once.
C7_OneFramePerInvocation ==
    /\ openFrames \in {0, 1}
    /\ pc \in {"idle", "from_source", "returned", "exited"} => openFrames = 0
    /\ pc = "returned" =>
          /\ Len(OfKind(trace, "open")) = 1
          /\ Len(OfKind(trace, "finish")) = 1

C7_Witness == pc = "returned" /\ frames >= 2 /\ openFrames = 0

\* C8: the draw calls of an invocation are the fill (Fill, no line width,
\* colour (1,0,0,0)) and then the stroke (Line, width 4, colour (1,1,0,0)),
\* both with the program compiled in this invocation; a presented frame has
\* both.
C8_FillThenStroke ==
    LET draws == OfKind(trace, "draw")
        IsFill(d) == /\ d.draw_parameters.polygon_mode = "Fill"
                     /\ d.draw_parameters.line_width = None
                     /\ d.uniforms.requested_rgba_color = <<1, 0, 0, 0>>
        IsStroke(d) == /\ d.draw_parameters.polygon_mode = "Line"
                       /\ d.draw_parameters.line_width = Some(4)
                       /\ d.uniforms.requested_rgba_color = <<1, 1, 0, 0>>
    IN  /\ Len(draws) <= 2
        /\ Len(draws) >= 1 => IsFill(draws[1])
        /\ Len(draws) = 2 => IsStroke(draws[2])
        /\ \A i \in DOMAIN draws :
              /\ draws[i].program = ticks
              /\ OfKind(trace, "compile")[1].program = ticks
        /\ Len(OfKind(trace, "finish")) = 1 => Len(draws) = 2

C8_Witness == pc = "returned" /\ Len(OfKind(trace, "draw")) = 2 /\ ticks >= 2

\* C9: the command generate_draw_command returns: Fill iff add_fill, the line
\* width is stroke_width, TrianglesList for Triangle and LineLoop for Circle,
\* multisampling on, and the uniform is the colour as (r, g, b, a).
C9_DrawCommand ==
    pc = "gen_done" =>
        /\ cmd.draw_parameters.polygon_mode = (IF args.add_fill THEN "Fill" ELSE "Line")
        /\ cmd.draw_parameters.line_width = args.stroke_width
        /\ cmd.draw_parameters.multisampling
        /\ args.primitive = "Triangle" => cmd.indices = "TrianglesList"
        /\ args.primitive = "Circle" => cmd.indices = "LineLoop"
        /\ cmd.uniforms.requested_rgba_color =
               <<args.color.r, args.color.g, args.color.b, args.color.a>>

C9_Witness ==
    /\ pc = "gen_done"
    /\ args.primitive = "Circle"
    /\ ~args.add_fill
    /\ args.stroke_width = Some(1)
    /\ args.color = Color_new(1, 0, 0, 1)

\* C10: once CloseRequested has been handed to the closure the program
\* terminates, and the loop's Exit is never replaced by another control flow.
C10_CloseTerminates ==
    /\ (event = CloseRequested /\ pc # "idle") ~> Terminated
    /\ [][loop_flow = "Exit" => loop_flow' = "Exit"]_vars

C10_Witness ==
    /\ pc = "returned"
    /\ event = LoopDestroyed
    /\ control_flow = "WaitUntil"
    /\ loop_flow = "Exit"

=============================================================================
